---------------------------- MODULE Spec2Model ----------------------------
(***************************************************************************)
(* rpasm: a one-pass transpiler from a stack-oriented notation to x86-64   *)
(* assembly text (src/rpasm.py).  The model follows the pipeline           *)
(*     Compiler(Scanner(input).scan()).compile()                           *)
(* of the __main__ block: Scanner.scan is a generator over the characters  *)
(* of the input, Compiler.compile a generator over its tokens, and the     *)
(* main loop writes every line compile yields.                             *)
(*                                                                         *)
(* Text is a sequence of one-character strings, so that str.isdigit, int,  *)
(* "%i" and ord are computed character by character.                       *)
(***************************************************************************)
EXTENDS Integers, Sequences, FiniteSets, TLC

(***************************************************************************)
(* Characters.  EOF is what TextIO.read(1) returns at the end of the       *)
(* input: the empty string.  SUP2 stands for the single character U+00B2   *)
(* (SUPERSCRIPT TWO), for which str.isdigit() is True and int() raises     *)
(* ValueError; NUL for the character "\0".                                 *)
(***************************************************************************)
EOF_CHAR == ""
SUP2 == "^2"
NUL == "\\0"

\* the printable ASCII characters, code points 32..95 and 97..126 in order
PrintableLow ==
  << " " >> \o
  <<"!", "\"", "#", "$", "%", "&", "'", "(", ")", "*", "+", ",", "-", ".", "/", "0", "1", "2", "3", "4", "5", "6", "7", "8", "9", ":", ";", "<", "=", ">", "?", "@", "A", "B", "C", "D", "E", "F", "G", "H", "I", "J", "K", "L", "M", "N", "O", "P", "Q", "R", "S", "T", "U", "V", "W", "X", "Y", "Z">> \o
  <<"[", "\\", "]">> \o <<"^", "_">>

PrintableHigh == <<"a", "b", "c", "d", "e", "f", "g", "h", "i", "j", "k", "l", "m", "n", "o", "p", "q", "r", "s", "t", "u", "v", "w", "x", "y", "z", "{", "|", "}", "~">>

\* ord(c)
Ord(ch) ==
  IF ch = NUL THEN 0
  ELSE IF ch = "\t" THEN 9
  ELSE IF ch = "\n" THEN 10
  ELSE IF ch = SUP2 THEN 178
  ELSE IF \E k \in 1..Len(PrintableLow) : PrintableLow[k] = ch
  THEN 31 + (CHOOSE k \in 1..Len(PrintableLow) : PrintableLow[k] = ch)
  ELSE 96 + (CHOOSE k \in 1..Len(PrintableHigh) : PrintableHigh[k] = ch)

\* str.isspace() of one character; "".isspace() is False
IsSpace(ch) == ch \in {" ", "\t", "\n"}

DecimalChars == <<"0", "1", "2", "3", "4", "5", "6", "7", "8", "9">>

IsDecimalChar(ch) == \E k \in 1..10 : DecimalChars[k] = ch

\* the characters str.isdigit() accepts: the decimal digits and the
\* compatibility digits such as U+00B2
IsDigitChar(ch) == IsDecimalChar(ch) \/ ch = SUP2

\* str.isdigit(): non-empty and every character a digit
IsDigit(s) == Len(s) > 0 /\ \A k \in 1..Len(s) : IsDigitChar(s[k])

\* whether int(s) succeeds on a text s with s.isdigit(); it raises
\* ValueError on a digit that is not a decimal
IntOk(s) == \A k \in 1..Len(s) : IsDecimalChar(s[k])

DigitVal(ch) == (CHOOSE k \in 1..10 : DecimalChars[k] = ch) - 1

\* int(s) for a text of decimal digits
RECURSIVE PyInt(_)
PyInt(s) ==
  IF Len(s) = 0 THEN 0
  ELSE 10 * PyInt(SubSeq(s, 1, Len(s) - 1)) + DigitVal(s[Len(s)])

\* "%i" % n and str(n), n >= 0
RECURSIVE Str(_)
Str(n) ==
  IF n < 10 THEN <<DecimalChars[n + 1]>>
  ELSE Str(n \div 10) \o <<DecimalChars[(n % 10) + 1]>>

\* sep.join(parts)
RECURSIVE Join(_, _)
Join(sep, parts) ==
  IF Len(parts) = 0 THEN <<>>
  ELSE IF Len(parts) = 1 THEN parts[1]
  ELSE parts[1] \o sep \o Join(sep, Tail(parts))

(***************************************************************************)
(* The lookup tables, lines 7-60.                                          *)
(***************************************************************************)
PREFIXES == <<"$", "@", "?", ":", "#", ".">>

InPrefixes(ch) == \E k \in 1..Len(PREFIXES) : PREFIXES[k] = ch

\* a dict is a sequence of <<key, value>> pairs; In and Get are "in" and []
In(key, dict) == \E k \in 1..Len(dict) : dict[k][1] = key

Get(dict, key) == dict[CHOOSE k \in 1..Len(dict) : dict[k][1] = key][2]

TYPES == << <<<<"b", "y", "t", "e">>, <<"b">>>>, <<<<"w", "o", "r", "d">>, <<"w">>>>, <<<<"d", "w", "o", "r", "d">>, <<"d">>>>, <<<<"q", "w", "o", "r", "d">>, <<"q">>>> >>

RDI_BY_SIZE ==
  << <<<<"b", "y", "t", "e">>, <<"d", "i", "l">>>>, <<<<"w", "o", "r", "d">>, <<"d", "i">>>>, <<<<"d", "w", "o", "r", "d">>, <<"e", "d", "i">>>>, <<<<"q", "w", "o", "r", "d">>, <<"r", "d", "i">>>> >>

CONDITIONAL_OPERATORS == << <<<<"=", "=">>, <<"e">>>>, <<<<"!", "=">>, <<"n", "e">>>> >>

SIMPLE_BINARY_OPERATORS == << <<<<"+">>, <<"a", "d", "d">>>>, <<<<"-">>, <<"s", "u", "b">>>> >>

CALL_ARG_REGS == <<<<"r", "d", "i">>, <<"r", "s", "i">>, <<"r", "d", "x">>, <<"r", "c", "x">>, <<"r", "8">>, <<"r", "9">>>>

SYSCALL_ARG_REGS == <<<<"r", "a", "x">>, <<"r", "d", "i">>, <<"r", "s", "i">>, <<"r", "d", "x">>, <<"r", "1", "0">>, <<"r", "8">>, <<"r", "9">>>>

\* lines 63-64 left out: no terminator is appended
asm_strUnterminated(val) ==
  <<"d", "b", " ">> \o Join(<<",", " ">>, [k \in 1..Len(val) |-> Str(Ord(val[k]))])

\* asm_str(val), lines 62-70
asm_str(val) ==
  LET v == IF Len(val) > 0 /\ val[Len(val)] = NUL THEN val ELSE val \o <<NUL>>
  IN  <<"d", "b", " ">> \o Join(<<",", " ">>, [k \in 1..Len(v) |-> Str(Ord(v[k]))])

(***************************************************************************)
(* Tokens, lines 72-87.  A str | int value is a record telling which of    *)
(* the two it is: isinstance(x, int) is x.isInt.                           *)
(***************************************************************************)
NoPrefix == "None"

IntLit(n) == [isInt |-> TRUE, n |-> n, s |-> <<>>]

StrLit(s) == [isInt |-> FALSE, n |-> 0, s |-> s]

FunctionToken(name, args) ==
  [kind |-> "FunctionToken", name |-> name, args |-> args,
   prefix |-> NoPrefix, value |-> StrLit(<<>>)]

ValueToken(prefix, value) ==
  [kind |-> "ValueToken", name |-> <<>>, args |-> <<>>,
   prefix |-> prefix, value |-> value]

StringToken(value) ==
  [kind |-> "StringToken", name |-> <<>>, args |-> <<>>,
   prefix |-> NoPrefix, value |-> StrLit(value)]

NoToken ==
  [kind |-> "None", name |-> <<>>, args |-> <<>>,
   prefix |-> NoPrefix, value |-> StrLit(<<>>)]

\* int(text) if text.isdigit() else text, lines 130 and 149-150; the
\* conversion raises ValueError where int() does
ClassifyFails(text) == IsDigit(text) /\ ~IntOk(text)

Classify(text) == IF IsDigit(text) THEN IntLit(PyInt(text)) ELSE StrLit(text)

(***************************************************************************)
(* Compiler.compile, lines 163-246, for one token: the lines it yields for *)
(* the token, in order, and the exception that ends the generator after    *)
(* them ("none": the for loop goes on to the next token).                  *)
(***************************************************************************)
Yield(lines) == [lines |-> lines, err |-> "none"]

\* the exception swallowed: the token yields nothing and the loop goes on
RaiseIgnored(msg) == [lines |-> <<>>, err |-> "none"]

Raise(msg) == [lines |-> <<>>, err |-> msg]

\* the indices taken from 1
RangeFromOne(n) == [j \in 1..n |-> j]

\* range(n) and reversed(range(n)), as sequences of 0-based indices
Range(n) == [j \in 1..n |-> j - 1]

\* reversed() left out: the indices in rising order
ReversedRangeRising(n) == [j \in 1..n |-> j - 1]

ReversedRange(n) == [j \in 1..n |-> n - j]

\* for i in idxs: yield fmt % (regs[i]): the lines yielded before the first
\* index outside the list, where regs[i] raises IndexError
YieldRegs(fmt, regs, idxs) ==
  LET bad == {j \in 1..Len(idxs) : idxs[j] >= Len(regs)}
      stop == IF bad = {} THEN Len(idxs)
              ELSE (CHOOSE j \in bad : \A k \in bad : j <= k) - 1
  IN  [lines |-> [j \in 1..stop |-> fmt \o regs[idxs[j] + 1]],
       err   |-> IF bad = {} THEN "none" ELSE "IndexError"]

\* the yields after the loop left out
ThenLoopOnly(loop, lines) == loop

\* a loop of yields followed by further yields
Then(loop, lines) ==
  IF loop.err = "none" THEN Yield(loop.lines \o lines) ELSE loop

IsStr(arg) == ~arg.isInt

IsInt(arg) == arg.isInt

\* lines 167-198
CompileFunction(tk) ==
  IF tk.name = <<"g", "l", "o", "b", "a", "l">> /\ Len(tk.args) = 1 /\ IsStr(tk.args[1])
  THEN Yield(<< <<"g", "l", "o", "b", "a", "l", " ">> \o tk.args[1].s >>)
  ELSE IF /\ tk.name = <<"d", "a", "t", "a">>
          /\ Len(tk.args) >= 2
          /\ IsStr(tk.args[1]) /\ In(tk.args[1].s, TYPES)
          /\ \A k \in 2..Len(tk.args) : IsInt(tk.args[k])
  THEN Yield(<< <<"d">> \o Get(TYPES, tk.args[1].s) \o <<" ">> \o
                Join(<<",", " ">>, [k \in 1..(Len(tk.args) - 1) |-> Str(tk.args[k + 1].n)]) >>)
  ELSE IF /\ tk.name = <<"c", "a", "l", "l">> /\ Len(tk.args) = 2
          /\ IsStr(tk.args[1]) /\ IsInt(tk.args[2])
  THEN Then(YieldRegs(<<"p", "o", "p", " ">>, CALL_ARG_REGS, ReversedRange(tk.args[2].n)),
            << <<"c", "a", "l", "l", " ">> \o tk.args[1].s, <<"p", "u", "s", "h", " ", "r", "a", "x">> >>)
  ELSE IF tk.name = <<"s", "y", "s", "c", "a", "l", "l">> /\ Len(tk.args) = 1 /\ IsInt(tk.args[1])
  THEN Then(YieldRegs(<<"p", "o", "p", " ">>, SYSCALL_ARG_REGS, ReversedRange(tk.args[1].n)),
            << <<"s", "y", "s", "c", "a", "l", "l">>, <<"p", "u", "s", "h", " ", "r", "a", "x">> >>)
  ELSE IF tk.name = <<"j", "m", "p">> /\ Len(tk.args) = 1 /\ IsStr(tk.args[1])
  THEN Yield(<< <<"j", "m", "p", " ">> \o tk.args[1].s >>)
  ELSE IF tk.name = <<"j", "m", "p", "i", "f">> /\ Len(tk.args) = 1 /\ IsStr(tk.args[1])
  THEN Yield(<< <<"p", "o", "p", " ", "r", "a", "x">>, <<"t", "e", "s", "t", " ", "r", "a", "x", ",", " ", "r", "a", "x">>, <<"j", "n", "z", " ">> \o tk.args[1].s >>)
  ELSE IF tk.name = <<"r", "e", "t", "u", "r", "n">> /\ Len(tk.args) = 0
  THEN Yield(<< <<"p", "o", "p", " ", "r", "a", "x">>, <<"r", "e", "t">> >>)
  ELSE IF tk.name = <<"a", "r", "g", "s">> /\ Len(tk.args) = 1 /\ IsInt(tk.args[1])
  THEN YieldRegs(<<"p", "u", "s", "h", " ">>, CALL_ARG_REGS, Range(tk.args[1].n))
  ELSE Raise("invalid function")

\* lines 199-225: a ValueToken whose value is a str
CompileStrValue(tk) ==
  LET prefix == tk.prefix
      value  == tk.value.s
  IN  IF prefix = "#" /\ In(value, TYPES)
      THEN Yield(<< <<"p", "o", "p", " ", "r", "a", "x">>, <<"x", "o", "r", " ", "r", "d", "i", ",", " ", "r", "d", "i">>,
                    <<"m", "o", "v", " ">> \o Get(RDI_BY_SIZE, value) \o <<",", " ">> \o value \o <<" ", "[", "r", "a", "x", "]">>,
                    <<"p", "u", "s", "h", " ", "r", "d", "i">> >>)
      ELSE IF prefix = "."
      THEN Yield(<< <<"s", "e", "c", "t", "i", "o", "n", " ">> \o value >>)
      ELSE IF prefix = ":"
      THEN Yield(<< value \o <<":">> >>)
      ELSE IF prefix = "$"
      THEN Yield(<< <<"m", "o", "v", " ", "r", "a", "x", ",", " ">> \o value, <<"p", "u", "s", "h", " ", "r", "a", "x">> >>)
      ELSE IF prefix = NoPrefix /\ In(value, CONDITIONAL_OPERATORS)
      THEN Yield(<< <<"p", "o", "p", " ", "r", "a", "x">>, <<"p", "o", "p", " ", "r", "d", "i">>, <<"x", "o", "r", " ", "r", "s", "i", ",", " ", "r", "s", "i">>, <<"c", "m", "p", " ", "r", "a", "x", ",", " ", "r", "d", "i">>,
                    <<"s", "e", "t">> \o Get(CONDITIONAL_OPERATORS, value) \o <<" ", "s", "i", "l">>,
                    <<"p", "u", "s", "h", " ", "r", "s", "i">> >>)
      ELSE IF prefix = NoPrefix /\ In(value, SIMPLE_BINARY_OPERATORS)
      THEN Yield(<< <<"p", "o", "p", " ", "r", "a", "x">>, <<"p", "o", "p", " ", "r", "d", "i">>,
                    Get(SIMPLE_BINARY_OPERATORS, value) \o <<" ", "r", "a", "x", ",", " ", "r", "d", "i">>,
                    <<"p", "u", "s", "h", " ", "r", "a", "x">> >>)
      ELSE Raise("invalid string value")

\* lines 226-244: a ValueToken whose value is an int
CompileIntValue(tk) ==
  LET prefix == tk.prefix
      value  == tk.value.n
  IN  IF prefix = NoPrefix
      THEN Yield(<< <<"p", "u", "s", "h", " ">> \o Str(value) >>)
      ELSE IF prefix = "$"
      THEN Yield(<< <<"m", "o", "v", " ", "r", "a", "x", ",", " ", "[", "r", "s", "p", " ", "+", " ">> \o Str(value * 8) \o <<"]">>, <<"p", "u", "s", "h", " ", "r", "a", "x">> >>)
      ELSE IF prefix = "@"
      THEN Yield(<< <<"m", "o", "v", " ", "r", "a", "x", ",", " ", "r", "s", "p">>, <<"a", "d", "d", " ", "r", "a", "x", ",", " ">> \o Str(value * 8), <<"p", "u", "s", "h", " ", "r", "a", "x">> >>)
      ELSE IF prefix = "?"
      THEN Yield(<< <<"a", "d", "d", " ", "r", "s", "p", ",", " ">> \o Str(value * 8) >>)
      ELSE IF prefix = ":"
      THEN Yield(<< <<"m", "o", "v", " ", "r", "a", "x", ",", " ", "[", "r", "s", "p", "]">>,
                    <<"m", "o", "v", " ", "r", "d", "i", ",", " ", "[", "r", "s", "p", " ", "+", " ">> \o Str(value * 8) \o <<"]">>,
                    <<"m", "o", "v", " ", "[", "r", "s", "p", "]", ",", " ", "r", "d", "i">>,
                    <<"m", "o", "v", " ", "[", "r", "s", "p", " ", "+", " ">> \o Str(value * 8) \o <<"]", ",", " ", "r", "a", "x">> >>)
      ELSE Raise("invalid integer value")

\* the dispatch on the token's type, lines 165-246
CompileToken(tk) ==
  IF tk.kind = "StringToken" THEN Yield(<< asm_str(tk.value.s) >>)
  ELSE IF tk.kind = "FunctionToken" THEN CompileFunction(tk)
  ELSE IF tk.kind = "ValueToken" /\ IsStr(tk.value) THEN CompileStrValue(tk)
  ELSE IF tk.kind = "ValueToken" /\ IsInt(tk.value) THEN CompileIntValue(tk)
  ELSE Raise("invalid token")

(***************************************************************************)
(* The inputs.  A program is the concatenation of at most two items, each  *)
(* a comment, a string literal, a bare token or a function call, complete  *)
(* or cut off by the end of the input.                                     *)
(***************************************************************************)
MaxArgc == 8
MaxArgs == 4

Names == {<<"g", "l", "o", "b", "a", "l">>, <<"d", "a", "t", "a">>, <<"c", "a", "l", "l">>, <<"s", "y", "s", "c", "a", "l", "l">>, <<"j", "m", "p">>, <<"j", "m", "p", "i", "f">>, <<"r", "e", "t", "u", "r", "n">>,
          <<"a", "r", "g", "s">>, <<"b", "a", "r">>, <<>>}

Counts == {Str(n) : n \in 0..MaxArgc}

ArgTexts == Counts \cup {<<"f", "o", "o">>, <<"b", "y", "t", "e">>, <<"2", " ">>, <<"a", " ", "b">>, <<"-", "1">>, <<"0", "7">>, <<SUP2>>, <<"1", SUP2>>}

ArgLists ==
  {<<>>} \cup {<<a>> : a \in ArgTexts}
         \cup {<<a, b>> : a \in {<<"f", "o", "o">>, <<"b", "y", "t", "e">>, <<"1">>}, b \in ArgTexts}
         \cup {<<<<"b", "y", "t", "e">>, <<"1">>, <<"2">>>>, <<<<"b", "y", "t", "e">>, <<"1">>, <<"f", "o", "o">>>>, <<<<"f", "o", "o">>, <<"2">>, <<"3">>>>}

Calls ==
  {n \o <<"(">> \o Join(<<",">>, l) \o e : n \in Names, l \in ArgLists, e \in {<<")">>, <<>>}}
  \cup {<<"c", "a", "l", "l", "(", "f", "o", "o", ",", " ", "2", ")">>, <<"c", "a", "l", "l", "(", " ", "f", "o", "o", " ", ",", "2", " ", ")">>, <<"r", "e", "t", "u", "r", "n", "(", " ", ")">>, <<"r", "e", "t", "u", "r", "n", "(">>, <<"r", "e", "t", "u", "r", "n", "(", " ">>, <<"j", "m", "p", "(", "f", "o", "o", ",">>,
        <<"j", "m", "p", "(", "f", "o", "o", ",", ")">>, <<"j", "m", "p", "(", ",", "f", "o", "o", ")">>, <<"f", "(", ",", ")">>, <<"s", "y", "s", "c", "a", "l", "l", "(", "1", ",">>, <<"j", "m", "p", "(", "\n", "x", ")">>}

Payloads == {<<>>, <<"f", "o", "o">>, <<"b", "y", "t", "e">>, <<"q", "w", "o", "r", "d">>, <<"5">>, <<"1", "2">>, <<"0", "7">>, <<"-", "1">>, <<"+">>, <<"-">>, <<"=", "=">>, <<"!", "=">>,
             <<"=">>, <<SUP2>>, <<"5", SUP2>>, <<"a", "\"", "b">>, <<"a", ";", "b">>, <<"$">>, <<"x", ")">>}

Values ==
  {p \o v \o e : p \in {<<>>, <<"$">>, <<"@">>, <<"?">>, <<":">>, <<"#">>, <<".">>}, v \in Payloads,
                 e \in {<<>>, <<" ">>, <<"(", "1", ")">>, <<"(">>}}

Strings ==
  {<<"\"">> \o b \o e : b \in {<<>>, <<"A">>, <<"A", "B">>, <<"a", " ", "b">>, <<"f", "(", "x">>, <<";", "x">>, <<"$", "5">>, <<"A", NUL>>, <<"\n">>},
                        e \in {<<"\"">>, <<>>}}

Comments ==
  {<<";">> \o b \o e : b \in {<<>>, <<"x">>, <<"\"", "a">>, <<"f", "(">>, <<";">>}, e \in {<<"\n">>, <<>>}}

Items == Calls \cup Values \cup Strings \cup Comments

Leads == {<<"5", " ">>, <<"5">>, <<"\"", "A", "\"">>, <<"\"", "A", "\"", " ">>, <<"+", " ">>, <<"a", "r", "g", "s", "(", "2", ")">>, <<"f", "(", ")">>, <<";", "c">> \o <<"\n">>, <<"j", "m", "p", "(">>, <<"\"">>, <<" ">>}

Seconds ==
  {<<"5">>, <<"f", "o", "o">>, <<"+">>, <<"$", "1">>, <<":", "x">>, <<"#", "5">>, <<"\"", "B", "\"">>, <<"\"", "B">>, <<";", "d">>, <<"a", "r", "g", "s", "(", "7", ")">>, <<"a", "r", "g", "s", "(", "3", ")">>, <<"c", "a", "l", "l", "(", "f", "o", "o", ",", "7", ")">>,
   <<"c", "a", "l", "l", "(", "f", "o", "o", ",", "2", ")">>, <<"s", "y", "s", "c", "a", "l", "l", "(", "8", ")">>, <<"d", "a", "t", "a", "(", "b", "y", "t", "e", ")">>, <<"b", "a", "r", "(", ")">>, <<"$", "f", "o", "o", "(", "1", ")">>, <<"(", "1", ")">>, <<"f", "(">>, <<"f", "(", "1">>, <<")">>,
   <<",">>, <<SUP2>>, <<" ">>, <<"r", "e", "t", "u", "r", "n", "(", ")", " ", "5">>, <<"-", " ", "\"", "Z", "\"">>}

Programs == Items \cup {a \o b : a \in Leads, b \in Seconds}

\* the registers the emitted lines name
Registers == {CALL_ARG_REGS[k] : k \in 1..Len(CALL_ARG_REGS)}
             \cup {SYSCALL_ARG_REGS[k] : k \in 1..Len(SYSCALL_ARG_REGS)}

(***************************************************************************)
(* The pipeline's state.                                                   *)
(*   input, pos   the input stream and the number of characters read       *)
(*   c            Scanner._c                                               *)
(*   spc          where Scanner.scan stands                                *)
(*   prefix, value, args   scan's locals (value is also the StringToken's  *)
(*                value while a string literal is read; i is len(args)-1   *)
(*                inside the loop over one argument)                       *)
(*   tk           compile's loop variable                                  *)
(*   cpc          where Compiler.compile stands: "pull" in next(stream),   *)
(*                "emit" in the body of the for loop                       *)
(*   lineIdx      the lines compile has yielded for tk                     *)
(*   out          the lines written by the main loop                       *)
(*   err          the exception that ended the pipeline, or "none"         *)
(* History, read only by the properties:                                   *)
(*   tks          the tokens scan has yielded                              *)
(*   spans        for each, the input positions of its first and of its    *)
(*                last character                                           *)
(*   first        the position of the first character of the token read    *)
(*   raws         for each token, the raw texts it classified              *)
(*   raw          the raw texts classified for the token being read        *)
(*   owner        for each line of out, the number of the token it is of   *)
(*   pulls        for each request of a token, the length of out then      *)
(* The machine that runs the lines of one token (SpecExec below):          *)
(*   mtk          the token                                                *)
(*   mpc          the number of its lines executed                         *)
(*   regs         the registers                                            *)
(*   stack        the runtime stack, the top first: stack[k + 1] is the    *)
(*                slot at [rsp + 8 * k]                                    *)
(*   stack0       the stack before the first line                          *)
(*   zf           the zero flag                                            *)
(*   ip           where the last line sent control: to the next line, to a *)
(*                label, or to an address taken off the stack              *)
(* A second Compiler over the same tokens (SpecTwice below):               *)
(*   run2         its place (pc), the number of tokens it has taken (at),  *)
(*                its loop variable tk, the lines it has yielded for tk    *)
(*                (lineIdx), the lines written from it (out) and the       *)
(*                exception that ended it (err)                            *)
(***************************************************************************)
VARIABLES input, pos, c, spc, prefix, value, args, tk, cpc, lineIdx, out, err,
          tks, spans, first, raws, raw, owner, pulls,
          mtk, mpc, regs, stack, stack0, zf, ip, run2

vars == <<input, pos, c, spc, prefix, value, args, tk, cpc, lineIdx, out, err,
          tks, spans, first, raws, raw, owner, pulls,
          mtk, mpc, regs, stack, stack0, zf, ip, run2>>

pipeline == <<input, pos, c, spc, prefix, value, args, tk, cpc, lineIdx, out, err,
              tks, spans, first, raws, raw, owner, pulls>>

machine == <<mtk, mpc, regs, stack, stack0, zf, ip, run2>>

locals == <<prefix, value, args, first, raw>>

compiler == <<tk, lineIdx, out, owner, pulls>>

history == <<tks, spans, raws>>

\* the pipeline before the first request of a line
InitPipeline(program) ==
  /\ input = program
  /\ pos = 0
  /\ c = EOF_CHAR
  /\ spc = "init"
  /\ prefix = NoPrefix
  /\ value = <<>>
  /\ args = <<>>
  /\ tk = NoToken
  /\ cpc = "pull"
  /\ lineIdx = 0
  /\ out = <<>>
  /\ err = "none"
  /\ tks = <<>>
  /\ spans = <<>>
  /\ first = 0
  /\ raws = <<>>
  /\ raw = <<>>
  /\ owner = <<>>
  /\ pulls = <<0>>

NoTarget == [kind |-> "next", label |-> <<>>, address |-> 0]

Label(name) == [kind |-> "label", label |-> name, address |-> 0]

Address(a) == [kind |-> "address", label |-> <<>>, address |-> a]

\* a number for each register: its place in SYSCALL_ARG_REGS, 0 for rcx
RegNo(r) ==
  IF \E k \in 1..Len(SYSCALL_ARG_REGS) : SYSCALL_ARG_REGS[k] = r
  THEN CHOOSE k \in 1..Len(SYSCALL_ARG_REGS) : SYSCALL_ARG_REGS[k] = r
  ELSE 0

\* the machine before the first line of token: the registers hold what
\* the lines before left in them, no two the same
InitMachine(token, slots, held) ==
  /\ mtk = token
  /\ mpc = 0
  /\ regs = [r \in Registers |-> held + RegNo(r)]
  /\ stack = slots
  /\ stack0 = slots
  /\ zf = FALSE
  /\ ip = NoTarget
  /\ run2 = [pc |-> "pull", at |-> 0, tk |-> NoToken, lineIdx |-> 0, out |-> <<>>,
             err |-> "none"]

Init ==
  /\ \E program \in Programs : InitPipeline(program)
  /\ InitMachine(NoToken, <<>>, 0)

\* Scanner._next, lines 96-98: read(1) returns "" at the end of the input
ReadChar == IF pos < Len(input) THEN input[pos + 1] ELSE EOF_CHAR

ReadPos == IF pos < Len(input) THEN pos + 1 ELSE pos

ScannerNext == c' = ReadChar /\ pos' = ReadPos

\* raise Exception(msg) in scan: the exception passes through compile and
\* the main loop
ScanRaise(msg) ==
  /\ spc' = "failed"
  /\ cpc' = "failed"
  /\ err' = msg
  /\ UNCHANGED <<compiler, history>>

\* yield t: compile's for loop binds tk and runs its body; scan resumes at
\* the head of its while loop, line 102; last is the position of the
\* token's last character, texts the raw texts it classified
ScanYield(t, last, texts) ==
  /\ tk' = t
  /\ cpc' = "emit"
  /\ lineIdx' = 0
  /\ spc' = "loop"
  /\ tks' = Append(tks, t)
  /\ spans' = Append(spans, <<first, last>>)
  /\ raws' = Append(raws, texts)
  /\ UNCHANGED <<out, owner, pulls, err>>

Running(at) == cpc = "pull" /\ spc = at

\* line 101
ScanBegin ==
  /\ Running("init")
  /\ ScannerNext
  /\ spc' = "loop"
  /\ UNCHANGED <<input, machine, locals, compiler, history, cpc, err>>

\* line 102 with the input exhausted: scan returns, compile's for loop and
\* the main loop end
ScanEnd ==
  /\ Running("loop")
  /\ c = EOF_CHAR
  /\ spc' = "end"
  /\ cpc' = "done"
  /\ UNCHANGED <<input, machine, pos, c, locals, compiler, history, err>>

\* lines 103-104
ScanSpace ==
  /\ Running("loop")
  /\ IsSpace(c)
  /\ ScannerNext
  /\ UNCHANGED <<input, machine, spc, locals, compiler, history, cpc, err>>

\* lines 105-109
ScanComment ==
  /\ Running("loop")
  /\ c = ";"
  /\ spc' = "comment"
  /\ UNCHANGED <<input, machine, pos, c, locals, compiler, history, cpc, err>>

ScanCommentChar ==
  /\ Running("comment")
  /\ c # EOF_CHAR /\ c # "\n"
  /\ ScannerNext
  /\ UNCHANGED <<input, machine, spc, locals, compiler, history, cpc, err>>

ScanCommentEnd ==
  /\ Running("comment")
  /\ ~(c # EOF_CHAR /\ c # "\n")
  /\ IF c # EOF_CHAR THEN ScannerNext ELSE UNCHANGED <<pos, c>>
  /\ spc' = "loop"
  /\ UNCHANGED <<input, machine, locals, compiler, history, cpc, err>>

\* lines 110-112
ScanString ==
  /\ Running("loop")
  /\ c = "\""
  /\ value' = <<>>
  /\ first' = pos
  /\ ScannerNext
  /\ spc' = "string"
  /\ UNCHANGED <<input, machine, prefix, args, raw, compiler, history, cpc, err>>

\* lines 113-115
ScanStringChar ==
  /\ Running("string")
  /\ c # EOF_CHAR /\ c # "\""
  /\ value' = value \o <<c>>
  /\ ScannerNext
  /\ UNCHANGED <<input, machine, spc, prefix, args, first, raw, compiler, history, cpc, err>>

\* lines 116-117
ScanStringUnclosed ==
  /\ Running("string")
  /\ c = EOF_CHAR
  /\ ScanRaise("unclosed string")
  /\ UNCHANGED <<input, machine, pos, c, locals>>

\* line 118 left out: the closing quote is not consumed
ScanStringEndKeepsQuote ==
  /\ Running("string")
  /\ c = "\""
  /\ ScanYield(StringToken(value), pos, <<>>)
  /\ UNCHANGED <<input, machine, pos, c, locals>>

\* lines 118-119
ScanStringEnd ==
  /\ Running("string")
  /\ c = "\""
  /\ ScannerNext
  /\ ScanYield(StringToken(value), pos, <<>>)
  /\ UNCHANGED <<input, machine, locals>>

\* lines 121-125
ScanValue ==
  /\ Running("loop")
  /\ c # EOF_CHAR /\ ~IsSpace(c) /\ c # ";" /\ c # "\""
  /\ value' = <<>>
  /\ first' = pos
  /\ IF InPrefixes(c)
     THEN prefix' = c /\ ScannerNext
     ELSE prefix' = NoPrefix /\ UNCHANGED <<pos, c>>
  /\ spc' = "value"
  /\ UNCHANGED <<input, machine, args, raw, compiler, history, cpc, err>>

\* lines 126-128
ScanValueChar ==
  /\ Running("value")
  /\ c # EOF_CHAR /\ ~IsSpace(c) /\ c # "("
  /\ value' = value \o <<c>>
  /\ ScannerNext
  /\ UNCHANGED <<input, machine, spc, prefix, args, first, raw, compiler, history, cpc, err>>

\* the character that ends the value is passed over before the yield
ScanValueEndReadsOn ==
  /\ Running("value")
  /\ ~(c # EOF_CHAR /\ ~IsSpace(c) /\ c # "(")
  /\ c # "("
  /\ ~ClassifyFails(value)
  /\ ScannerNext
  /\ ScanYield(ValueToken(prefix, Classify(value)), IF c = EOF_CHAR THEN pos ELSE pos - 1, <<value>>)
  /\ UNCHANGED <<input, machine, locals>>

\* lines 129-131
ScanValueEnd ==
  /\ Running("value")
  /\ ~(c # EOF_CHAR /\ ~IsSpace(c) /\ c # "(")
  /\ c # "("
  /\ ~ClassifyFails(value)
  /\ ScanYield(ValueToken(prefix, Classify(value)), IF c = EOF_CHAR THEN pos ELSE pos - 1, <<value>>)
  /\ UNCHANGED <<input, machine, pos, c, locals>>

\* line 130, where int(value) raises
ScanValueError ==
  /\ Running("value")
  /\ ~(c # EOF_CHAR /\ ~IsSpace(c) /\ c # "(")
  /\ c # "("
  /\ ClassifyFails(value)
  /\ ScanRaise("ValueError")
  /\ UNCHANGED <<input, machine, pos, c, locals>>

\* lines 132-133 left out: a prefixed name goes on as a function call
ScanPrefixedFunctionAccepted ==
  /\ Running("value")
  /\ c = "("
  /\ prefix # NoPrefix
  /\ args' = <<>>
  /\ raw' = <<>>
  /\ ScannerNext
  /\ spc' = "args"
  /\ UNCHANGED <<input, machine, prefix, value, first, compiler, history, cpc, err>>

\* lines 132-133
ScanPrefixedFunction ==
  /\ Running("value")
  /\ c = "("
  /\ prefix # NoPrefix
  /\ ScanRaise("functions cannot be prefixed")
  /\ UNCHANGED <<input, machine, pos, c, locals>>

\* lines 135-137
ScanFunction ==
  /\ Running("value")
  /\ c = "("
  /\ prefix = NoPrefix
  /\ args' = <<>>
  /\ raw' = <<>>
  /\ ScannerNext
  /\ spc' = "args"
  /\ UNCHANGED <<input, machine, prefix, value, first, compiler, history, cpc, err>>

\* lines 139-140
ScanArgsSpace ==
  /\ Running("args")
  /\ IsSpace(c)
  /\ ScannerNext
  /\ UNCHANGED <<input, machine, spc, locals, compiler, history, cpc, err>>

\* lines 141-142 and 152-155: the break, the test of line 152, the read of
\* the character after ")" and the yield
ScanArgsEnd ==
  /\ Running("args")
  /\ c = ")"
  /\ IF c = EOF_CHAR
     THEN /\ ScanRaise("unclosed function")
          /\ UNCHANGED <<input, machine, pos, c, locals>>
     ELSE /\ ScannerNext
          /\ ScanYield(FunctionToken(value, args), pos, raw)
          /\ UNCHANGED <<input, machine, locals>>

\* line 143; at the end of the input the loop of lines 138-151 does not
\* end: every turn appends one more "" and reads nothing.  The model keeps
\* the first MaxArgs entries of args and goes on turning
ScanArg ==
  /\ Running("args")
  /\ ~IsSpace(c) /\ c # ")"
  /\ Len(args) < MaxArgs \/ c = EOF_CHAR
  /\ args' = IF Len(args) < MaxArgs THEN Append(args, StrLit(<<>>)) ELSE args
  /\ spc' = "arg"
  /\ UNCHANGED <<input, machine, pos, c, prefix, value, first, raw, compiler, history, cpc, err>>

\* lines 144-146
ScanArgChar ==
  /\ Running("arg")
  /\ c # EOF_CHAR /\ c # "," /\ c # ")"
  /\ args' = [args EXCEPT ![Len(args)] = StrLit(@.s \o <<c>>)]
  /\ ScannerNext
  /\ UNCHANGED <<input, machine, spc, prefix, value, first, raw, compiler, history, cpc, err>>

\* lines 147-151; Len(raw) = Len(args) in a turn whose entry the model
\* does not keep
ScanArgEnd ==
  /\ Running("arg")
  /\ ~(c # EOF_CHAR /\ c # "," /\ c # ")")
  /\ ~ClassifyFails(args[Len(args)].s)
  /\ IF c = "," THEN ScannerNext ELSE UNCHANGED <<pos, c>>
  /\ IF Len(raw) < Len(args)
     THEN /\ args' = [args EXCEPT ![Len(args)] = Classify(@.s)]
          /\ raw' = Append(raw, args[Len(args)].s)
     ELSE UNCHANGED <<args, raw>>
  /\ spc' = "args"
  /\ UNCHANGED <<input, machine, prefix, value, first, compiler, history, cpc, err>>

\* lines 147-150, where int(args[i]) raises
ScanArgError ==
  /\ Running("arg")
  /\ ~(c # EOF_CHAR /\ c # "," /\ c # ")")
  /\ ClassifyFails(args[Len(args)].s)
  /\ IF c = "," THEN ScannerNext ELSE UNCHANGED <<pos, c>>
  /\ ScanRaise("ValueError")
  /\ UNCHANGED <<input, machine, locals>>

(***************************************************************************)
(* Compiler.compile and the main loop, lines 163-166 and 254-256: each     *)
(* line compile yields is written before the next is asked for.            *)
(***************************************************************************)
\* the lines of a token collected and written last first
EmitLineLastFirst ==
  /\ cpc = "emit"
  /\ lineIdx < Len(CompileToken(tk).lines)
  /\ out' = Append(out, CompileToken(tk).lines[Len(CompileToken(tk).lines) - lineIdx])
  /\ owner' = Append(owner, Len(tks))
  /\ lineIdx' = lineIdx + 1
  /\ UNCHANGED <<input, machine, pos, c, spc, locals, tk, cpc, err, history, pulls>>

\* a yield of the loop body, and the write of line 256
EmitLine ==
  /\ cpc = "emit"
  /\ lineIdx < Len(CompileToken(tk).lines)
  /\ out' = Append(out, CompileToken(tk).lines[lineIdx + 1])
  /\ owner' = Append(owner, Len(tks))
  /\ lineIdx' = lineIdx + 1
  /\ UNCHANGED <<input, machine, pos, c, spc, locals, tk, cpc, err, history, pulls>>

\* a raise of the loop body, after the lines yielded before it
CompileRaise ==
  /\ cpc = "emit"
  /\ lineIdx = Len(CompileToken(tk).lines)
  /\ CompileToken(tk).err # "none"
  /\ cpc' = "failed"
  /\ err' = CompileToken(tk).err
  /\ UNCHANGED <<input, machine, pos, c, spc, locals, tk, lineIdx, out, owner, history, pulls>>

\* the end of the loop body: the for loop asks scan for the next token
NextToken ==
  /\ cpc = "emit"
  /\ lineIdx = Len(CompileToken(tk).lines)
  /\ CompileToken(tk).err = "none"
  /\ cpc' = "pull"
  /\ pulls' = Append(pulls, Len(out))
  /\ UNCHANGED <<input, machine, pos, c, spc, locals, tk, lineIdx, out, owner, err, history>>

Next ==
  \/ ScanBegin \/ ScanEnd \/ ScanSpace
  \/ ScanComment \/ ScanCommentChar \/ ScanCommentEnd
  \/ ScanString \/ ScanStringChar \/ ScanStringUnclosed \/ ScanStringEnd
  \/ ScanValue \/ ScanValueChar \/ ScanValueEnd \/ ScanValueError
  \/ ScanPrefixedFunction \/ ScanFunction
  \/ ScanArgsSpace \/ ScanArgsEnd \/ ScanArg \/ ScanArgChar \/ ScanArgEnd \/ ScanArgError
  \/ EmitLine \/ CompileRaise \/ NextToken

Spec == Init /\ [][Next]_vars

(***************************************************************************)
(* A second run of Compiler.compile, lines 160-246, over the tokens the    *)
(* same stream delivers: a Compiler holds the stream and nothing else, and *)
(* the loop holds tk.  The second run takes the tokens scan has yielded,   *)
(* in order, at any time after the first run took them.                    *)
(***************************************************************************)
Run2Step == UNCHANGED <<pipeline, mtk, mpc, regs, stack, stack0, zf, ip>>

\* tk is not bound anew: the loop goes on with the lines of the token
\* before
Run2TakeKeepsToken ==
  /\ run2.pc = "pull"
  /\ run2.at < Len(tks)
  /\ run2' = [run2 EXCEPT !.pc = "emit", !.at = @ + 1, !.lineIdx = 0,
                          !.tk = IF run2.at = 0 THEN tks[1] ELSE run2.tk]
  /\ Run2Step

\* line 164: the for loop binds tk to the next token of the stream
Run2Take ==
  /\ run2.pc = "pull"
  /\ run2.at < Len(tks)
  /\ run2' = [run2 EXCEPT !.pc = "emit", !.at = @ + 1, !.lineIdx = 0,
                          !.tk = tks[run2.at + 1]]
  /\ Run2Step

\* line 164: the stream is exhausted, or raises what scan raised
Run2End ==
  /\ run2.pc = "pull"
  /\ run2.at = Len(tks)
  /\ spc \in {"end", "failed"}
  /\ run2' = IF spc = "end" THEN [run2 EXCEPT !.pc = "done"]
             ELSE [run2 EXCEPT !.pc = "failed", !.err = err]
  /\ Run2Step

\* a yield of the loop body, written
Run2EmitLine ==
  /\ run2.pc = "emit"
  /\ run2.lineIdx < Len(CompileToken(run2.tk).lines)
  /\ run2' = [run2 EXCEPT !.out = Append(@, CompileToken(run2.tk).lines[run2.lineIdx + 1]),
                          !.lineIdx = @ + 1]
  /\ Run2Step

\* a raise of the loop body
Run2Raise ==
  /\ run2.pc = "emit"
  /\ run2.lineIdx = Len(CompileToken(run2.tk).lines)
  /\ CompileToken(run2.tk).err # "none"
  /\ run2' = [run2 EXCEPT !.pc = "failed", !.err = CompileToken(run2.tk).err]
  /\ Run2Step

\* the end of the loop body
Run2NextToken ==
  /\ run2.pc = "emit"
  /\ run2.lineIdx = Len(CompileToken(run2.tk).lines)
  /\ CompileToken(run2.tk).err = "none"
  /\ run2' = [run2 EXCEPT !.pc = "pull"]
  /\ Run2Step

NextTwice ==
  \/ Next
  \/ Run2Take \/ Run2End \/ Run2EmitLine \/ Run2Raise \/ Run2NextToken

SpecTwice == Init /\ [][NextTwice]_vars

\* the interpreter runs the one thread of the pipeline until it ends
FairSpec == Spec /\ WF_vars(Next)

(***************************************************************************)
(* The lines of one token, run on the machine.  Each action is the effect  *)
(* of one kind of emitted line; a register holds a signed integer (the     *)
(* bounds keep every result within 64 bits).  What a called routine or a   *)
(* system call does is its result in rax; its effect on the other          *)
(* registers and on memory is not modelled.  Memory outside the stack is   *)
(* not modelled either: a load from it, and the address of a symbol, is    *)
(* any of Results.                                                         *)
(***************************************************************************)
MaxVal == 2
StackDepth == 8

\* the value call and syscall leave in rax, the value a load finds in
\* memory, and the address of a symbol
Results == {0, 7}

\* what the registers hold before the first line, but for the number of
\* each: nothing, or a value with a bit above the low byte
Held == {0, 2 ^ 8}

\* the stacks the lines start on: two operands on top of StackDepth - 2
\* distinct slots
Stacks ==
  {<<a, b>> \o [k \in 1..(StackDepth - 2) |-> 10 + k] : a \in 0..MaxVal, b \in 0..MaxVal}

\* the tokens scan yields for the text of every rule of compile
MachineTokens ==
  {ValueToken(NoPrefix, StrLit(op)) : op \in {<<"+">>, <<"-">>, <<"=", "=">>, <<"!", "=">>}}
  \cup {FunctionToken(<<"c", "a", "l", "l">>, <<StrLit(<<"f", "o", "o">>), IntLit(n)>>) : n \in 0..MaxArgc}
  \cup {FunctionToken(<<"s", "y", "s", "c", "a", "l", "l">>, <<IntLit(n)>>) : n \in 0..MaxArgc}
  \cup {FunctionToken(<<"a", "r", "g", "s">>, <<IntLit(n)>>) : n \in 0..MaxArgc}
  \cup {ValueToken(p, IntLit(n)) : p \in {NoPrefix, "$", "@", "?", ":"}, n \in 0..MaxVal}
  \cup {ValueToken(p, StrLit(<<"f", "o", "o">>)) : p \in {"$", ":", "."}}
  \cup {ValueToken("#", StrLit(TYPES[k][1])) : k \in 1..Len(TYPES)}
  \cup {StringToken(s) : s \in {<<>>, <<"A", "B">>}}
  \cup {FunctionToken(<<"g", "l", "o", "b", "a", "l">>, <<StrLit(<<"f", "o", "o">>)>>),
        FunctionToken(<<"d", "a", "t", "a">>, <<StrLit(<<"b", "y", "t", "e">>), IntLit(1), IntLit(2)>>),
        FunctionToken(<<"j", "m", "p">>, <<StrLit(<<"f", "o", "o">>)>>),
        FunctionToken(<<"j", "m", "p", "i", "f">>, <<StrLit(<<"f", "o", "o">>)>>),
        FunctionToken(<<"r", "e", "t", "u", "r", "n">>, <<>>)}

InitExec ==
  /\ InitPipeline(<<>>)
  /\ \E token \in MachineTokens, slots \in Stacks, held \in Held :
       InitMachine(token, slots, held)

\* the line to run next
Fetch(line) ==
  /\ mpc < Len(CompileToken(mtk).lines)
  /\ line = CompileToken(mtk).lines[mpc + 1]

Step == mpc' = mpc + 1 /\ UNCHANGED <<pipeline, mtk, stack0, run2>>

\* the address in rsp: the stack grows towards lower addresses, a slot is
\* 8 bytes
Rsp(stk) == 8 * (StackDepth + MaxArgc - Len(stk))

\* the slot numbers the lines of a token name
Slots == 0..MaxVal

\* control goes on with the next line
Falls == ip' = NoTarget

\* the low bits of a register replaced, the others kept
LowBits(old, bits, v) == old - (old % (2 ^ bits)) + v

\* pop r
ExecPop ==
  \E r \in Registers :
    /\ Fetch(<<"p", "o", "p", " ">> \o r)
    /\ Len(stack) > 0
    /\ regs' = [regs EXCEPT ![r] = stack[1]]
    /\ stack' = Tail(stack)
    /\ Falls /\ UNCHANGED zf
    /\ Step

\* push r
ExecPush ==
  \E r \in Registers :
    /\ Fetch(<<"p", "u", "s", "h", " ">> \o r)
    /\ stack' = <<regs[r]>> \o stack
    /\ Falls /\ UNCHANGED <<regs, zf>>
    /\ Step

\* push n
ExecPushImm ==
  \E n \in 0..MaxVal :
    /\ Fetch(<<"p", "u", "s", "h", " ">> \o Str(n))
    /\ stack' = <<n>> \o stack
    /\ Falls /\ UNCHANGED <<regs, zf>>
    /\ Step

\* add rax, rdi
ExecAdd ==
  /\ Fetch(<<"a", "d", "d", " ", "r", "a", "x", ",", " ", "r", "d", "i">>)
  /\ regs' = [regs EXCEPT ![<<"r", "a", "x">>] = regs[<<"r", "a", "x">>] + regs[<<"r", "d", "i">>]]
  /\ zf' = (regs'[<<"r", "a", "x">>] = 0)
  /\ Falls /\ UNCHANGED stack
  /\ Step

\* sub rax, rdi
ExecSub ==
  /\ Fetch(<<"s", "u", "b", " ", "r", "a", "x", ",", " ", "r", "d", "i">>)
  /\ regs' = [regs EXCEPT ![<<"r", "a", "x">>] = regs[<<"r", "a", "x">>] - regs[<<"r", "d", "i">>]]
  /\ zf' = (regs'[<<"r", "a", "x">>] = 0)
  /\ Falls /\ UNCHANGED stack
  /\ Step

\* the xor left out: the register keeps what it held
ExecXorKeeps ==
  \E r \in {<<"r", "d", "i">>, <<"r", "s", "i">>} :
    /\ Fetch(<<"x", "o", "r", " ">> \o r \o <<",", " ">> \o r)
    /\ zf' = TRUE
    /\ Falls /\ UNCHANGED <<regs, stack>>
    /\ Step

\* xor r, r
ExecXor ==
  \E r \in {<<"r", "d", "i">>, <<"r", "s", "i">>} :
    /\ Fetch(<<"x", "o", "r", " ">> \o r \o <<",", " ">> \o r)
    /\ regs' = [regs EXCEPT ![r] = 0]
    /\ zf' = TRUE
    /\ Falls /\ UNCHANGED stack
    /\ Step

\* cmp rax, rdi
ExecCmp ==
  /\ Fetch(<<"c", "m", "p", " ", "r", "a", "x", ",", " ", "r", "d", "i">>)
  /\ zf' = (regs[<<"r", "a", "x">>] = regs[<<"r", "d", "i">>])
  /\ Falls /\ UNCHANGED <<regs, stack>>
  /\ Step

\* sete sil, setne sil: the low byte of rsi becomes 1 or 0
ExecSet ==
  \E k \in 1..Len(CONDITIONAL_OPERATORS) :
    /\ Fetch(<<"s", "e", "t">> \o CONDITIONAL_OPERATORS[k][2] \o <<" ", "s", "i", "l">>)
    /\ LET holds == IF CONDITIONAL_OPERATORS[k][2] = <<"e">> THEN zf ELSE ~zf
       IN  regs' = [regs EXCEPT ![<<"r", "s", "i">>] = LowBits(@, 8, IF holds THEN 1 ELSE 0)]
    /\ Falls /\ UNCHANGED <<stack, zf>>
    /\ Step

\* test rax, rax
ExecTest ==
  /\ Fetch(<<"t", "e", "s", "t", " ", "r", "a", "x", ",", " ", "r", "a", "x">>)
  /\ zf' = (regs[<<"r", "a", "x">>] = 0)
  /\ Falls /\ UNCHANGED <<regs, stack>>
  /\ Step

\* jnz label
ExecJnz ==
  \E label \in {<<"f", "o", "o">>} :
    /\ Fetch(<<"j", "n", "z", " ">> \o label)
    /\ ip' = IF zf THEN NoTarget ELSE Label(label)
    /\ UNCHANGED <<regs, stack, zf>>
    /\ Step

\* jmp label
ExecJmp ==
  \E label \in {<<"f", "o", "o">>} :
    /\ Fetch(<<"j", "m", "p", " ">> \o label)
    /\ ip' = Label(label)
    /\ UNCHANGED <<regs, stack, zf>>
    /\ Step

\* ret: the return address is taken off the stack
ExecRet ==
  /\ Fetch(<<"r", "e", "t">>)
  /\ Len(stack) > 0
  /\ ip' = Address(stack[1])
  /\ stack' = Tail(stack)
  /\ UNCHANGED <<regs, zf>>
  /\ Step

\* call name: the routine returns with its result in rax
ExecCall ==
  \E name \in {<<"f", "o", "o">>}, result \in Results :
    /\ Fetch(<<"c", "a", "l", "l", " ">> \o name)
    /\ regs' = [regs EXCEPT ![<<"r", "a", "x">>] = result]
    /\ Falls /\ UNCHANGED <<stack, zf>>
    /\ Step

\* syscall: the kernel returns with its result in rax
ExecSyscall ==
  \E result \in Results :
    /\ Fetch(<<"s", "y", "s", "c", "a", "l", "l">>)
    /\ regs' = [regs EXCEPT ![<<"r", "a", "x">>] = result]
    /\ Falls /\ UNCHANGED <<stack, zf>>
    /\ Step

\* mov rax, name
ExecMovSymbol ==
  \E name \in {<<"f", "o", "o">>}, address \in Results :
    /\ Fetch(<<"m", "o", "v", " ", "r", "a", "x", ",", " ">> \o name)
    /\ regs' = [regs EXCEPT ![<<"r", "a", "x">>] = address]
    /\ Falls /\ UNCHANGED <<stack, zf>>
    /\ Step

\* mov rdi, qword [rax] and the narrower loads into edi, di and dil
ExecMovLoad ==
  \E k \in 1..Len(TYPES), v \in Results :
    LET type == TYPES[k][1]
    IN  /\ Fetch(<<"m", "o", "v", " ">> \o Get(RDI_BY_SIZE, type) \o <<",", " ">> \o type \o <<" ", "[", "r", "a", "x", "]">>)
        /\ regs' = [regs EXCEPT ![<<"r", "d", "i">>] =
                      IF type = <<"b", "y", "t", "e">> THEN LowBits(@, 8, v)
                      ELSE IF type = <<"w", "o", "r", "d">> THEN LowBits(@, 16, v)
                      ELSE v]
        /\ Falls /\ UNCHANGED <<stack, zf>>
        /\ Step

\* mov rax, rsp
ExecMovRsp ==
  /\ Fetch(<<"m", "o", "v", " ", "r", "a", "x", ",", " ", "r", "s", "p">>)
  /\ regs' = [regs EXCEPT ![<<"r", "a", "x">>] = Rsp(stack)]
  /\ Falls /\ UNCHANGED <<stack, zf>>
  /\ Step

\* add rax, 8n
ExecAddImm ==
  \E n \in Slots :
    /\ Fetch(<<"a", "d", "d", " ", "r", "a", "x", ",", " ">> \o Str(n * 8))
    /\ regs' = [regs EXCEPT ![<<"r", "a", "x">>] = @ + n * 8]
    /\ zf' = (regs'[<<"r", "a", "x">>] = 0)
    /\ Falls /\ UNCHANGED stack
    /\ Step

\* add rsp, 8n
ExecAddRsp ==
  \E n \in Slots :
    /\ Fetch(<<"a", "d", "d", " ", "r", "s", "p", ",", " ">> \o Str(n * 8))
    /\ n <= Len(stack)
    /\ stack' = SubSeq(stack, n + 1, Len(stack))
    /\ zf' = (Rsp(stack') = 0)
    /\ Falls /\ UNCHANGED regs
    /\ Step

\* the operand that names the slot n words above the top: [rsp + 8n], and
\* [rsp] for the top itself
IsSlot(operand, n) ==
  \/ operand = <<"[", "r", "s", "p", " ", "+", " ">> \o Str(n * 8) \o <<"]">>
  \/ n = 0 /\ operand = <<"[", "r", "s", "p", "]">>

SlotOperands == {<<"[", "r", "s", "p", "]">>} \cup {<<"[", "r", "s", "p", " ", "+", " ">> \o Str(n * 8) \o <<"]">> : n \in Slots}

\* mov r, [rsp] and mov r, [rsp + 8n]
ExecMovFromSlot ==
  \E r \in {<<"r", "a", "x">>, <<"r", "d", "i">>}, n \in Slots, operand \in SlotOperands :
    /\ IsSlot(operand, n)
    /\ Fetch(<<"m", "o", "v", " ">> \o r \o <<",", " ">> \o operand)
    /\ n < Len(stack)
    /\ regs' = [regs EXCEPT ![r] = stack[n + 1]]
    /\ Falls /\ UNCHANGED <<stack, zf>>
    /\ Step

\* the store goes to the slot above the slot named
ExecMovToSlotAbove ==
  \E r \in {<<"r", "a", "x">>, <<"r", "d", "i">>}, n \in Slots, operand \in SlotOperands :
    /\ IsSlot(operand, n)
    /\ Fetch(<<"m", "o", "v", " ">> \o operand \o <<",", " ">> \o r)
    /\ n + 1 < Len(stack)
    /\ stack' = [stack EXCEPT ![n + 2] = regs[r]]
    /\ Falls /\ UNCHANGED <<regs, zf>>
    /\ Step

\* mov [rsp], r and mov [rsp + 8n], r
ExecMovToSlot ==
  \E r \in {<<"r", "a", "x">>, <<"r", "d", "i">>}, n \in Slots, operand \in SlotOperands :
    /\ IsSlot(operand, n)
    /\ Fetch(<<"m", "o", "v", " ">> \o operand \o <<",", " ">> \o r)
    /\ n < Len(stack)
    /\ stack' = [stack EXCEPT ![n + 1] = regs[r]]
    /\ Falls /\ UNCHANGED <<regs, zf>>
    /\ Step

\* a line that is no instruction: a label or a directive
IsDirective(line) ==
  \/ Len(line) > 0 /\ line[Len(line)] = ":"
  \/ \E word \in {<<"d", "b", " ">>, <<"d", "w", " ">>, <<"d", "d", " ">>, <<"d", "q", " ">>, <<"g", "l", "o", "b", "a", "l", " ">>, <<"s", "e", "c", "t", "i", "o", "n", " ">>} :
       Len(line) >= Len(word) /\ SubSeq(line, 1, Len(word)) = word

\* a label or a directive: nothing is run
ExecDirective ==
  /\ mpc < Len(CompileToken(mtk).lines)
  /\ IsDirective(CompileToken(mtk).lines[mpc + 1])
  /\ Falls /\ UNCHANGED <<regs, stack, zf>>
  /\ Step

NextExec ==
  \/ ExecPop \/ ExecPush \/ ExecPushImm \/ ExecAdd \/ ExecSub
  \/ ExecXor \/ ExecCmp \/ ExecSet \/ ExecTest \/ ExecJnz \/ ExecJmp \/ ExecRet
  \/ ExecCall \/ ExecSyscall \/ ExecMovSymbol \/ ExecMovLoad \/ ExecMovRsp
  \/ ExecAddImm \/ ExecAddRsp \/ ExecMovFromSlot \/ ExecMovToSlot \/ ExecDirective

SpecExec == InitExec /\ [][NextExec]_vars

(***************************************************************************)
(* The properties.                                                         *)
(***************************************************************************)
\* the concatenation of a sequence of sequences
RECURSIVE Flatten(_)
Flatten(ss) == IF Len(ss) = 0 THEN <<>> ELSE ss[1] \o Flatten(Tail(ss))

\* the lines compile yields for each of the tokens
LinesOf(tokens) == [k \in 1..Len(tokens) |-> CompileToken(tokens[k]).lines]

ScannerErrors ==
  {"unclosed string", "functions cannot be prefixed", "unclosed function", "ValueError"}

InvalidConstructErrors ==
  {"invalid function", "invalid string value", "invalid integer value", "invalid token"}

\* scan stands at the head of the loop over the arguments, line 139, with
\* the input exhausted
InArgsAtEof == cpc = "pull" /\ spc = "args" /\ c = EOF_CHAR

\* C1: once the "(" of a function call is read and the input has ended
\* before the ")", the next step of scan raises "unclosed function": it
\* neither goes on without failing nor yields a FunctionToken.
C1_UnclosedFunctionRaises ==
  [][InArgsAtEof => (err' = "unclosed function" /\ tks' = tks)]_vars

\* the machine's token is the bare operator op
IsOperator(op) ==
  /\ mtk.kind = "ValueToken"
  /\ mtk.prefix = NoPrefix
  /\ IsStr(mtk.value)
  /\ mtk.value.s = op

Executed == mpc = Len(CompileToken(mtk).lines)

\* the slots below the n on top when the lines started
Below(n) == SubSeq(stack0, n + 1, Len(stack0))

\* C2: the lines of "+" and "-", run on a stack whose top is a and whose
\* next slot is b, leave b + a, resp. b - a (second-popped OP first-popped)
\* in place of the two.
C2_SecondPoppedOpFirstPopped ==
  /\ (IsOperator(<<"+">>) /\ Executed) => stack = <<stack0[2] + stack0[1]>> \o Below(2)
  /\ (IsOperator(<<"-">>) /\ Executed) => stack = <<stack0[2] - stack0[1]>> \o Below(2)

IsCall == mtk.kind = "FunctionToken" /\ mtk.name = <<"c", "a", "l", "l">>

IsSyscall == mtk.kind = "FunctionToken" /\ mtk.name = <<"s", "y", "s", "c", "a", "l", "l">>

Argc == IF IsCall THEN mtk.args[2].n ELSE mtk.args[1].n

ArgRegs == IF IsCall THEN CALL_ARG_REGS ELSE SYSCALL_ARG_REGS

CallLine == IF IsCall THEN <<"c", "a", "l", "l", " ">> \o mtk.args[1].s ELSE <<"s", "y", "s", "c", "a", "l", "l">>

\* C3, as claimed: for every argc, call(name, argc) and syscall(argc) emit
\* exactly argc pop lines, then the call or syscall line, then push rax.
C3_EveryArgcEmitsPopsCallPush ==
  (IsCall \/ IsSyscall) =>
    LET lines == CompileToken(mtk).lines
    IN  /\ Len(lines) = Argc + 2
        /\ \A k \in 1..Argc : \E r \in Registers : lines[k] = <<"p", "o", "p", " ">> \o r
        /\ lines[Argc + 1] = CallLine
        /\ lines[Argc + 2] = <<"p", "u", "s", "h", " ", "r", "a", "x">>

\* C3, amended: for argc up to the length of the register list (6 for
\* call, 7 for syscall) the lines are pop of registers argc-th, ..., 1st,
\* the call or syscall line, push rax; when the call line is reached the
\* value pushed k-th is in the k-th register (the latest-popped in the
\* first), and afterwards rax is pushed in place of the argc values.
C3_PopsIntoRegistersInOrder ==
  ((IsCall \/ IsSyscall) /\ Argc <= Len(ArgRegs)) =>
    /\ CompileToken(mtk).err = "none"
    /\ CompileToken(mtk).lines =
         [k \in 1..Argc |-> <<"p", "o", "p", " ">> \o ArgRegs[Argc - k + 1]] \o <<CallLine, <<"p", "u", "s", "h", " ", "r", "a", "x">>>>
    /\ mpc = Argc => \A k \in 1..Argc : regs[ArgRegs[k]] = stack0[Argc - k + 1]
    /\ mpc = Argc + 2 => stack = <<regs[<<"r", "a", "x">>]>> \o Below(Argc)

\* call(foo, 2) stands at its call line with the value pushed first in rdi
\* and the value pushed second in rsi
C3_Witness ==
  /\ IsCall /\ Argc = 2 /\ mpc = 2
  /\ CompileToken(mtk).lines = <<<<"p", "o", "p", " ", "r", "s", "i">>, <<"p", "o", "p", " ", "r", "d", "i">>, <<"c", "a", "l", "l", " ", "f", "o", "o">>, <<"p", "u", "s", "h", " ", "r", "a", "x">>>>
  /\ stack0[1] # stack0[2]
  /\ regs[<<"r", "d", "i">>] = stack0[2]
  /\ regs[<<"r", "s", "i">>] = stack0[1]

\* the token compile holds, and the positions of its first and last
\* character in the input
Last == Len(tks)

LastSpan == spans[Last]

\* the lines written, by the tokens yielded: all lines of the tokens before
\* the last one, and the first lineIdx lines of the last one
WrittenInOrder ==
  IF Last = 0 THEN out = <<>>
  ELSE out = Flatten(LinesOf(SubSeq(tks, 1, Last - 1)))
               \o SubSeq(CompileToken(tks[Last]).lines, 1, lineIdx)

\* C4, as claimed: while the lines of token k are written, the scanner has
\* read no character that belongs to a later token: nothing beyond the
\* last character of token k but white space.
C4_NoCharacterOfLaterTokensRead ==
  cpc = "emit" =>
    \A p \in (LastSpan[2] + 1)..pos : IsSpace(input[p])

\* C4, amended: the lines are written in the order of the tokens, every
\* line of token k before token k + 1 is requested, never interleaved; and
\* while they are written the scanner has read at most one character
\* beyond the last character of token k (after a string literal or a
\* function call this may be the first character of token k + 1).
C4_LinesInTokenOrder ==
  /\ WrittenInOrder
  /\ Len(owner) = Len(out)
  /\ \A i, j \in 1..Len(owner) : i <= j => owner[i] <= owner[j]
  /\ \A k \in 1..Len(pulls) :
       /\ k <= Last + 1
       /\ pulls[k] = Len(Flatten(LinesOf(SubSeq(tks, 1, k - 1))))
       /\ \A j \in 1..Len(owner) : j <= pulls[k] <=> owner[j] < k
  /\ cpc = "emit" => pos <= LastSpan[2] + 1

\* "A"args(3): the first character of the second token was read before
\* the line of the first was written, and its three lines follow that line
C4_Witness ==
  /\ Last = 2 /\ cpc = "emit" /\ lineIdx = 3
  /\ tks[1].kind = "StringToken"
  /\ spans[2][1] = spans[1][2] + 1
  /\ owner = <<1, 2, 2, 2>>
  /\ pulls = <<0, 1>>

\* the rules of the generator: the prefix and payload kinds of a value,
\* the name, arity and argument types of a function
TypeNames == {<<"b", "y", "t", "e">>, <<"w", "o", "r", "d">>, <<"d", "w", "o", "r", "d">>, <<"q", "w", "o", "r", "d">>}

RuleMatches(t) ==
  \/ t.kind = "StringToken"
  \/ /\ t.kind = "ValueToken"
     /\ \/ t.value.isInt /\ t.prefix \in {NoPrefix, "$", "@", "?", ":"}
        \/ ~t.value.isInt /\ t.prefix \in {"$", ":", "."}
        \/ ~t.value.isInt /\ t.prefix = "#" /\ t.value.s \in TypeNames
        \/ ~t.value.isInt /\ t.prefix = NoPrefix /\ t.value.s \in {<<"=", "=">>, <<"!", "=">>, <<"+">>, <<"-">>}
  \/ /\ t.kind = "FunctionToken"
     /\ \/ t.name \in {<<"g", "l", "o", "b", "a", "l">>, <<"j", "m", "p">>, <<"j", "m", "p", "i", "f">>} /\ Len(t.args) = 1 /\ ~t.args[1].isInt
        \/ /\ t.name = <<"d", "a", "t", "a">> /\ Len(t.args) >= 2
           /\ ~t.args[1].isInt /\ t.args[1].s \in TypeNames
           /\ \A k \in 2..Len(t.args) : t.args[k].isInt
        \/ t.name = <<"c", "a", "l", "l">> /\ Len(t.args) = 2 /\ ~t.args[1].isInt /\ t.args[2].isInt
        \/ t.name \in {<<"s", "y", "s", "c", "a", "l", "l">>, <<"a", "r", "g", "s">>} /\ Len(t.args) = 1 /\ t.args[1].isInt
        \/ t.name = <<"r", "e", "t", "u", "r", "n">> /\ Len(t.args) = 0

\* C5: a token that matches none of the generation rules fails with the
\* invalid-construct error before any line of it is written, and ends
\* the generation.
C5_NoRuleRaisesInvalidConstruct ==
  [][(cpc = "emit" /\ ~RuleMatches(tk)) =>
       /\ lineIdx = 0
       /\ cpc' = "failed"
       /\ err' \in InvalidConstructErrors
       /\ out' = out]_vars

\* data(byte) has failed
C5_Witness ==
  /\ cpc = "failed" /\ err = "invalid function"
  /\ tk = FunctionToken(<<"d", "a", "t", "a">>, <<StrLit(<<"b", "y", "t", "e">>)>>)
  /\ ~RuleMatches(tk)

\* C6: at the first error the lines written are exactly the complete lines
\* of the tokens before the failing construct.
C6_ErrorLeavesCompleteTokensOnly ==
  cpc = "failed" =>
    out = Flatten(LinesOf(SubSeq(tks, 1, IF err \in ScannerErrors THEN Last ELSE Last - 1)))

\* a raw text of decimal digits only, and its value
AllDecimal(text) ==
  Len(text) > 0 /\ \A k \in 1..Len(text) : text[k] \in {DecimalChars[d] : d \in 1..10}

RECURSIVE DecimalValue(_)
DecimalValue(text) ==
  IF Len(text) = 0 THEN 0
  ELSE (CHOOSE d \in 0..9 : DecimalChars[d + 1] = text[1]) * 10^(Len(text) - 1)
         + DecimalValue(Tail(text))

Classified(text) ==
  IF AllDecimal(text) THEN IntLit(DecimalValue(text)) ELSE StrLit(text)

\* C7: the raw text of a bare payload or of an argument is classified as
\* an integer, its decimal value, if and only if all of it is decimal
\* digits, and is otherwise yielded unchanged as an identifier.
C7_IntegerIffAllDecimalDigits ==
  [][/\ (cpc = "pull" /\ spc = "value" /\ (c = EOF_CHAR \/ IsSpace(c)))
          => tks' = Append(tks, ValueToken(prefix, Classified(value)))
     /\ (cpc = "pull" /\ spc = "arg" /\ c \in {EOF_CHAR, ",", ")"})
          => args' = [args EXCEPT ![Len(args)] = Classified(@.s)]]_vars

Quote == "\""

\* C8: a string literal that the input ends in fails with "unclosed string"
\* and yields no token; a closed one yields the characters strictly between
\* its quotes, and the closing quote is consumed: the scan goes on behind it.
C8_StringTokens ==
  /\ \A k \in 1..Last :
       tks[k].kind = "StringToken" =>
         LET f == spans[k][1]
             l == spans[k][2]
         IN  /\ f < l
             /\ input[f] = Quote /\ input[l] = Quote
             /\ \A p \in (f + 1)..(l - 1) : input[p] # Quote
             /\ tks[k].value.s = SubSeq(input, f + 1, l - 1)
             /\ k < Last => spans[k + 1][1] > l
  /\ (cpc = "emit" /\ tk.kind = "StringToken") =>
       /\ pos = IF LastSpan[2] < Len(input) THEN LastSpan[2] + 1 ELSE Len(input)
       /\ c = IF LastSpan[2] < Len(input) THEN input[LastSpan[2] + 1] ELSE EOF_CHAR
  /\ err = "unclosed string" =>
       /\ input[first] = Quote
       /\ \A p \in (first + 1)..Len(input) : input[p] # Quote
       /\ \A k \in 1..Last : spans[k][2] < first

C8_StringAtEndOfInput ==
  (cpc = "pull" /\ spc = "string" /\ c = EOF_CHAR) =>
    (err' = "unclosed string" /\ tks' = tks)

C8_UnclosedStringFailsClosedIsExact ==
  []C8_StringTokens /\ [][C8_StringAtEndOfInput]_vars

\* "A""B: the first literal was yielded, the second is unclosed
C8_Witness ==
  /\ err = "unclosed string"
  /\ tks = <<StringToken(<<"A">>)>>
  /\ spans = << <<1, 3>> >>
  /\ first = 4

\* C9: a bare token that begins with a sigil and whose run of characters is
\* followed by "(" fails with "functions cannot be prefixed" at the "(",
\* before any argument is read; no FunctionToken begins with a sigil.
C9_NoPrefixedFunctionToken ==
  /\ \A k \in 1..Last :
       tks[k].kind = "FunctionToken" => ~InPrefixes(input[spans[k][1]])
  /\ err = "functions cannot be prefixed" =>
       /\ InPrefixes(input[first])
       /\ input[pos] = "("
       /\ \A p \in (first + 1)..(pos - 1) : ~IsSpace(input[p]) /\ input[p] # "("
       /\ \A k \in 1..Last : spans[k][2] < first

C9_SigilThenParenthesis ==
  (cpc = "pull" /\ spc = "value" /\ InPrefixes(input[first]) /\ c = "(") =>
    (err' = "functions cannot be prefixed" /\ pos' = pos /\ tks' = tks)

C9_PrefixedFunctionFails ==
  []C9_NoPrefixedFunctionToken /\ [][C9_SigilThenParenthesis]_vars

\* $foo(1) has failed at its "("
C9_Witness ==
  /\ input = <<"$", "f", "o", "o", "(", "1", ")">>
  /\ err = "functions cannot be prefixed"
  /\ pos = 5

\* C10: every FunctionToken yielded has a non-empty name.
C10_FunctionNameNonEmpty ==
  \A k \in 1..Last : tks[k].kind = "FunctionToken" => tks[k].name # <<>>


\* the pipeline has ended: scan is exhausted, or an exception has passed
\* through the main loop
Terminated == cpc \in {"done", "failed"}

\* every read takes the next character of the input, none twice and none
\* skipped
ReadsInOrder == pos' = pos \/ (pos' = pos + 1 /\ c' = input[pos'])

\* C11: for every input the consumption of scan ends, by exhaustion or by
\* an exception, after finitely many steps; each character is read once and
\* in order, and when scan is exhausted all of them have been read.
C11_ScanTerminates ==
  /\ <>Terminated
  /\ [][ReadsInOrder]_vars
  /\ [](cpc = "done" => pos = Len(input))

\* the rule table's net change of the stack depth for the token t
DocumentedEffect(t) ==
  IF t.kind = "StringToken" THEN 0
  ELSE IF t.kind = "FunctionToken"
  THEN IF t.name \in {<<"g", "l", "o", "b", "a", "l">>, <<"d", "a", "t", "a">>, <<"j", "m", "p">>} THEN 0
       ELSE IF t.name = <<"c", "a", "l", "l">> THEN 1 - t.args[2].n
       ELSE IF t.name = <<"s", "y", "s", "c", "a", "l", "l">> THEN 1 - t.args[1].n
       ELSE IF t.name \in {<<"j", "m", "p", "i", "f">>, <<"r", "e", "t", "u", "r", "n">>} THEN 0 - 1
       ELSE t.args[1].n
  ELSE IF IsInt(t.value)
  THEN IF t.prefix \in {NoPrefix, "$", "@"} THEN 1
       ELSE IF t.prefix = "?" THEN 0 - t.value.n
       ELSE 0
  ELSE IF t.prefix = NoPrefix THEN 0 - 1
       ELSE IF t.prefix = "$" THEN 1
       ELSE 0

\* the change of the stack depth since the first line of the token
DepthChange == Len(stack) - Len(stack0)

IsReturn == mtk.kind = "FunctionToken" /\ mtk.name = <<"r", "e", "t", "u", "r", "n">>

\* C12, as claimed: for every rule, the lines emitted for the token change
\* the depth of the runtime stack by the amount of the rule table.
C12_DepthChangeAsDocumented ==
  Executed => DepthChange = DocumentedEffect(mtk)

\* C12, amended: for every token the generator handles without failing
\* (the count of call, syscall and args within the register list), the
\* lines change the depth by the amount of the rule table; for return that
\* is the one value popped into rax, after which ret takes the return
\* address off the stack as well, two slots in all.
C12_DepthChangeOfHandledTokens ==
  (Executed /\ CompileToken(mtk).err = "none") =>
    /\ ~IsReturn => DepthChange = DocumentedEffect(mtk)
    /\ IsReturn =>
         /\ DepthChange = DocumentedEffect(mtk) - 1
         /\ regs[<<"r", "a", "x">>] = stack0[1]
         /\ ip = Address(stack0[2])

\* ?2 has discarded the two slots on top
C12_Witness ==
  /\ mtk = ValueToken("?", IntLit(2))
  /\ Executed
  /\ mpc = 1
  /\ stack = Below(2)

\* the six lines of a comparison that sets the low byte of rsi on cc
ComparisonLines(cc) ==
  << <<"p", "o", "p", " ", "r", "a", "x">>, <<"p", "o", "p", " ", "r", "d", "i">>, <<"x", "o", "r", " ", "r", "s", "i", ",", " ", "r", "s", "i">>, <<"c", "m", "p", " ", "r", "a", "x", ",", " ", "r", "d", "i">>, <<"s", "e", "t">> \o cc \o <<" ", "s", "i", "l">>,
     <<"p", "u", "s", "h", " ", "r", "s", "i">> >>

\* C13: the bare tokens == and != yield exactly six lines: pop, pop, zero
\* the scratch register, compare, set on the condition, push; run, they
\* take the two values on top and push 1 if the comparison of the two
\* holds and 0 if not, a whole word whatever rsi held before.
C13_ComparisonPushesOneOrZero ==
  /\ IsOperator(<<"=", "=">>) =>
       /\ CompileToken(mtk) = Yield(ComparisonLines(<<"e">>))
       /\ Executed =>
            stack = <<IF stack0[1] = stack0[2] THEN 1 ELSE 0>> \o Below(2)
  /\ IsOperator(<<"!", "=">>) =>
       /\ CompileToken(mtk) = Yield(ComparisonLines(<<"n", "e">>))
       /\ Executed =>
            stack = <<IF stack0[1] # stack0[2] THEN 1 ELSE 0>> \o Below(2)

\* == has run on two equal values with a bit set above the low byte of
\* every register, and has pushed 1
C13_Witness ==
  /\ IsOperator(<<"=", "=">>)
  /\ Executed
  /\ mpc = 6
  /\ stack0[1] = stack0[2]
  /\ regs[<<"r", "d", "x">>] >= 2 ^ 8
  /\ stack[1] = 1

\* compile has yielded every line of token k
Emitted(k) ==
  \/ k < Last
  \/ /\ k = Last
     /\ \/ cpc \in {"pull", "done"}
        \/ cpc = "emit" /\ lineIdx = Len(CompileToken(tk).lines)
        \/ cpc = "failed" /\ err \in ScannerErrors

\* the lines written for token k
LinesWrittenFor(k) == {j \in 1..Len(out) : owner[j] = k}

\* the bytes a string literal stands for: the ordinal of each character,
\* and one 0 unless the last character is NUL
Bytes(s) ==
  [k \in 1..Len(s) |-> Ord(s[k])]
    \o (IF Len(s) > 0 /\ s[Len(s)] = NUL THEN <<>> ELSE <<0>>)

\* the db line that lists the numbers ns, separated by a comma and a space
DbLine(ns) ==
  <<"d", "b", " ">> \o Flatten([k \in 1..Len(ns) |-> (IF k = 1 THEN <<>> ELSE <<",", " ">>) \o Str(ns[k])])

\* C14: for every string literal s exactly one line is written: db and the
\* ordinals of the characters of s in order, followed by one 0 unless s
\* ends with NUL; "" gives db 0 and "AB" gives db 65, 66, 0.
C14_OneDbLineWithTerminator ==
  \A k \in 1..Last :
    (tks[k].kind = "StringToken" /\ Emitted(k)) =>
      LET s == tks[k].value.s
      IN  /\ Cardinality(LinesWrittenFor(k)) = 1
          /\ \A j \in LinesWrittenFor(k) : out[j] = DbLine(Bytes(s))
          /\ s = <<>> => \A j \in LinesWrittenFor(k) : out[j] = <<"d", "b", " ", "0">>
          /\ s = <<"A", "B">> => \A j \in LinesWrittenFor(k) : out[j] = <<"d", "b", " ", "6", "5", ",", " ", "6", "6", ",", " ", "0">>

\* the literal of the two characters A and NUL is written with no second
\* terminator
C14_Witness ==
  /\ Last = 1
  /\ tks[1] = StringToken(<<"A", NUL>>)
  /\ cpc = "done"
  /\ out = << <<"d", "b", " ", "6", "5", ",", " ", "0">> >>

IsArgs == mtk.kind = "FunctionToken" /\ mtk.name = <<"a", "r", "g", "s">>

\* the n of args(n)
ArgsCount == mtk.args[1].n

\* the push lines of the first n call-argument registers
PushLines(n) == [k \in 1..n |-> <<"p", "u", "s", "h", " ">> \o CALL_ARG_REGS[k]]

\* the stack after the first n call-argument registers were pushed in the
\* order of the list
Pushed(n) == [j \in 1..n |-> regs[CALL_ARG_REGS[n + 1 - j]]] \o stack0

\* C15, as claimed: for every n, args(n) yields exactly n push lines that
\* name the first n call-argument registers in the order of the list, and
\* nothing else; run, they raise the stack by n slots.
C15_EveryCountEmitsPushes ==
  IsArgs =>
    LET lines == CompileToken(mtk).lines
    IN  /\ CompileToken(mtk).err = "none"
        /\ Len(lines) = ArgsCount
        /\ ArgsCount <= Len(CALL_ARG_REGS)
        /\ lines = PushLines(ArgsCount)
        /\ Executed => DepthChange = ArgsCount

\* C15, amended: for n up to the length of the register list (6), args(n)
\* yields exactly the n lines push rdi, push rsi, push rdx, push rcx,
\* push r8, push r9 cut after the n-th, and nothing else; run, they put
\* the values of these registers on the stack, the n-th on top.  For a
\* larger n it yields the six lines and then fails with IndexError.
C15_PushesWithinRegisterList ==
  IsArgs =>
    /\ CALL_ARG_REGS = <<<<"r", "d", "i">>, <<"r", "s", "i">>, <<"r", "d", "x">>, <<"r", "c", "x">>, <<"r", "8">>, <<"r", "9">>>>
    /\ ArgsCount <= Len(CALL_ARG_REGS) =>
         /\ CompileToken(mtk) = Yield(PushLines(ArgsCount))
         /\ Executed => (stack = Pushed(ArgsCount) /\ DepthChange = ArgsCount)
    /\ ArgsCount > Len(CALL_ARG_REGS) =>
         /\ CompileToken(mtk).lines = PushLines(Len(CALL_ARG_REGS))
         /\ CompileToken(mtk).err = "IndexError"

\* args(6) has run: r9 is on top of rdi .. r8 and of the stack it found
C15_Witness ==
  /\ IsArgs
  /\ ArgsCount = Len(CALL_ARG_REGS)
  /\ Executed
  /\ mpc = ArgsCount
  /\ stack[1] = regs[<<"r", "9">>]
  /\ stack[ArgsCount] = regs[<<"r", "d", "i">>]
  /\ stack[1] # stack[ArgsCount]

IsSwap == mtk.kind = "ValueToken" /\ mtk.prefix = ":" /\ IsInt(mtk.value)

\* the stack s with the top slot and the slot n words above it exchanged
Exchanged(s, n) ==
  [k \in 1..Len(s) |-> IF k = 1 THEN s[n + 1] ELSE IF k = n + 1 THEN s[1] ELSE s[k]]

\* C16: the lines of :n leave the stack pointer where it is at every line
\* and, run to the end, have exchanged the top slot with the slot n words
\* above it and left every other slot as it was; :0 leaves the stack as it
\* was.
C16_SwapExchangesTwoSlots ==
  IsSwap =>
    /\ Rsp(stack) = Rsp(stack0)
    /\ Executed =>
         /\ stack = Exchanged(stack0, mtk.value.n)
         /\ mtk.value.n = 0 => stack = stack0

\* :2 has run on a stack whose top and third slot differ
C16_Witness ==
  /\ IsSwap
  /\ mtk.value.n = 2
  /\ Executed
  /\ mpc = 4
  /\ stack0[1] # stack0[3]
  /\ stack[1] = stack0[3]
  /\ stack[3] = stack0[1]
  /\ stack[2] = stack0[2]

\* the text between the parentheses of the function call that is token k
Body(k) ==
  SubSeq(input, spans[k][1] + Len(tks[k].name) + 1, spans[k][2] - 1)

\* text without its leading white space
RECURSIVE SkipSpace(_)
SkipSpace(text) ==
  IF Len(text) > 0 /\ IsSpace(text[1]) THEN SkipSpace(Tail(text)) ELSE text

\* the number of characters of text before its first comma
BeforeComma(text) ==
  IF \E p \in 1..Len(text) : text[p] = ","
  THEN (CHOOSE p \in 1..Len(text) : text[p] = "," /\ \A q \in 1..(p - 1) : text[q] # ",") - 1
  ELSE Len(text)

\* the arguments of a call with this text between its parentheses: after
\* the white space before it, each runs up to the next comma or to the end
RECURSIVE ArgumentTexts(_)
ArgumentTexts(text) ==
  LET rest == SkipSpace(text)
      n == BeforeComma(rest)
  IN  IF Len(rest) = 0 THEN <<>>
      ELSE <<SubSeq(rest, 1, n)>> \o ArgumentTexts(SubSeq(rest, n + 2, Len(rest)))

\* every function call yielded has the arguments of its text
ArgsAsWritten ==
  \A k \in 1..Last :
    tks[k].kind = "FunctionToken" =>
      /\ input[spans[k][1] + Len(tks[k].name)] = "("
      /\ input[spans[k][2]] = ")"
      /\ \A p \in 1..Len(Body(k)) : Body(k)[p] # ")"
      /\ raws[k] = ArgumentTexts(Body(k))
      /\ tks[k].args = [j \in 1..Len(raws[k]) |-> Classified(raws[k][j])]
      /\ SkipSpace(Body(k)) = <<>> => tks[k].args = <<>>
      /\ \A j \in 1..Len(raws[k]) : raws[k][j] = <<"2", " ">> => tks[k].args[j] = StrLit(<<"2", " ">>)

\* scan is reading the arguments of a call whose ")" is in the input
InClosedCall ==
  /\ cpc = "pull"
  /\ spc \in {"args", "arg"}
  /\ c = ")" \/ \E p \in (pos + 1)..Len(input) : input[p] = ")"

\* C17: a function call name(a0, ..., ak) is yielded as one FunctionToken
\* (scan does not fail while it reads the arguments of a closed call)
\* whose args are, in order, the texts between the commas, each the raw
\* characters up to the next "," or ")" after the leading white space,
\* classified; trailing and embedded white space is kept ("2 " is an
\* identifier), and nothing but white space between the parentheses gives
\* no argument.
C17_CallYieldsArgumentsAsWritten ==
  /\ []ArgsAsWritten
  /\ [][InClosedCall => err' = "none"]_vars

\* the lines written for token k, in the order written
LinesWritten(k) ==
  LET js == LinesWrittenFor(k)
  IN  IF js = {} THEN <<>>
      ELSE SubSeq(out, CHOOSE a \in js : \A j \in js : a <= j,
                       CHOOSE b \in js : \A j \in js : j <= b)

BothEnded == cpc \in {"done", "failed"} /\ run2.pc \in {"done", "failed"}

CompileFailed == cpc = "failed" /\ err \notin ScannerErrors

\* C19: whenever compile fails while it handles a token, no line of that
\* token has been written: the exception comes before the token's first
\* line, also for call, syscall and args with a count beyond the register
\* list.
C19_FailureBeforeFirstLine ==
  CompileFailed => (lineIdx = 0 /\ LinesWrittenFor(Last) = {})

\* the character scan holds is the one read last, or nothing at the end of
\* the input
HoldsLastRead == c = (IF pos = LastSpan[2] THEN EOF_CHAR ELSE input[pos])

\* C20: when scan yields a token, and until the next token is asked for,
\* it has read at most one character beyond the token's last character:
\* the character that ended a bare value, or the character after the
\* closing quote or parenthesis; at the end of the input, none.  Nothing
\* beyond that character has been read when the consumer stops.
C20_OneCharacterLookahead ==
  (cpc = "emit" \/ CompileFailed) =>
    /\ LastSpan[2] <= pos /\ pos <= LastSpan[2] + 1
    /\ pos = LastSpan[2] => pos = Len(input)
    /\ HoldsLastRead
    /\ tk.kind = "ValueToken" => (c = EOF_CHAR \/ IsSpace(c))
    /\ tk.kind = "StringToken" => input[LastSpan[2]] = Quote
    /\ tk.kind = "FunctionToken" => input[LastSpan[2]] = ")"

\* "A"$1: the string literal is yielded when the $ after it has been
\* read, and nothing beyond
C20_Witness ==
  /\ cpc = "emit"
  /\ Last = 1
  /\ tk.kind = "StringToken"
  /\ LastSpan[2] = 3
  /\ pos = 4
  /\ c = "$"
  /\ pos < Len(input)
=============================================================================
